---- MODULE Spec2Model ----
(***************************************************************************)
(* rust-atomizer: SCIP index -> call graph -> atoms.                       *)
(*                                                                         *)
(* Model of src/src/scip_to_call_graph_json_final.rs: build_call_graph     *)
(* (passes 1-4), symbol_to_path and write_call_graph_as_atoms_json.        *)
(*                                                                         *)
(* Text is a sequence of characters, each character a string; a character  *)
(* that cannot be written in a string of this language is named by its     *)
(* code point ("U+0060" the backquote, "U+00E9" a two-byte letter) and     *)
(* occupies CharWidth bytes, as in a Rust String (UTF-8).                  *)
(***************************************************************************)
EXTENDS Integers, Sequences, FiniteSets, TLC

\* Option<T>: None, Some(x)
None == <<>>
Some(x) == <<x>>
IsSome(o) == o # None
Unwrap(o) == o[1]

(***************************************************************************)
(* Text primitives (the std::str methods the code calls).                  *)
(***************************************************************************)

\* char::is_whitespace, on the characters of the model
IsWhitespace(c) == c \in {" ", "\t", "\n", "\r"}

\* char::is_digit(10)
IsDigit(c) == c \in {"0", "1", "2", "3", "4", "5", "6", "7", "8", "9"}

\* UTF-8 width of a character
CharWidth(c) == IF c = "U+00E9" THEN 2 ELSE 1

\* String::len: length in bytes
ByteLen(s) == Len(s) + Cardinality({i \in 1..Len(s) : CharWidth(s[i]) = 2})

\* s[i..] with i a 0-based character index
DropChars(s, i) == SubSeq(s, i + 1, Len(s))

\* s[..i] with i a 0-based character index
TakeChars(s, i) == SubSeq(s, 1, i)

\* str::starts_with
StartsWith(s, pat) == Len(pat) <= Len(s) /\ SubSeq(s, 1, Len(pat)) = pat

\* str::ends_with
EndsWith(s, pat) ==
    Len(pat) <= Len(s) /\ SubSeq(s, Len(s) - Len(pat) + 1, Len(s)) = pat

\* str::find(&str): 0-based index of the first match, None when there is none
Find(s, pat) ==
    LET hits == {i \in 0..(Len(s) - Len(pat)) : SubSeq(s, i + 1, i + Len(pat)) = pat}
    IN  IF hits = {} THEN None ELSE Some(CHOOSE i \in hits : \A j \in hits : i <= j)

\* str::contains(&str)
Contains(s, pat) == IsSome(Find(s, pat))

\* str::matches(char).count()
CountChar(s, c) == Cardinality({i \in 1..Len(s) : s[i] = c})

\* str::find(|c| c.is_digit(10))
FindDigit(s) ==
    LET hits == {i \in 0..(Len(s) - 1) : IsDigit(s[i + 1])}
    IN  IF hits = {} THEN None ELSE Some(CHOOSE i \in hits : \A j \in hits : i <= j)

RECURSIVE TrimStart(_)
\* str::trim_start
TrimStart(s) ==
    IF s # <<>> /\ IsWhitespace(Head(s)) THEN TrimStart(Tail(s)) ELSE s

RECURSIVE TrimEnd(_)
\* str::trim_end
TrimEnd(s) ==
    IF s # <<>> /\ IsWhitespace(s[Len(s)]) THEN TrimEnd(TakeChars(s, Len(s) - 1)) ELSE s

\* str::trim
Trim(s) == TrimEnd(TrimStart(s))

RECURSIVE TrimEndMatches(_, _)
\* str::trim_end_matches(char)
TrimEndMatches(s, c) ==
    IF s # <<>> /\ s[Len(s)] = c THEN TrimEndMatches(TakeChars(s, Len(s) - 1), c) ELSE s

RECURSIVE TrimStartMatches(_, _)
\* str::trim_start_matches(&str): removes every repetition of the prefix
TrimStartMatches(s, pat) ==
    IF pat # <<>> /\ StartsWith(s, pat)
    THEN TrimStartMatches(DropChars(s, Len(pat)), pat)
    ELSE s

\* the characters of s at the positions that keep(i) selects, in order
KeepAt(s, keep(_)) ==
    LET idx == SelectSeq([i \in 1..Len(s) |-> i], keep)
    IN  [k \in 1..Len(idx) |-> s[idx[k]]]

\* str::replace(char, &str) with a one-character replacement
ReplaceChar(s, from, to) == [i \in 1..Len(s) |-> IF s[i] = from THEN to ELSE s[i]]

\* number of consecutive c immediately before position i of s
RunBefore(s, i, c) ==
    LET others == {j \in 1..(i - 1) : s[j] # c}
        last == IF others = {} THEN 0 ELSE CHOOSE j \in others : \A k \in others : k <= j
    IN  i - 1 - last

\* str::replace("//", "/"): one pass over non-overlapping matches, left to
\* right, so of a run of k separators the 2nd, 4th, ... are dropped
ReplaceSlashSlash(s) ==
    KeepAt(s, LAMBDA i : ~(s[i] = "/" /\ RunBefore(s, i, "/") % 2 = 1))

\* str::replace(&[char], ""): removes every character of the set
RemoveChars(s, cs) == SelectSeq(s, LAMBDA c : c \notin cs)

RECURSIVE SplitWhitespace(_)
\* str::split_whitespace, collected
SplitWhitespace(s) ==
    LET t == TrimStart(s)
        ends == {i \in 1..Len(t) : IsWhitespace(t[i])}
        stop == IF ends = {} THEN Len(t) + 1
                ELSE CHOOSE i \in ends : \A j \in ends : i <= j
    IN  IF t = <<>> THEN <<>>
        ELSE <<SubSeq(t, 1, stop - 1)>> \o SplitWhitespace(SubSeq(t, stop, Len(t)))

\* position i of s lies in a match of the regex <[^>]*>: some '<' at or
\* before i is followed by no '>' before i, and a '>' stands at or after i
InGeneric(s, i) ==
    LET closed == {k \in 1..(i - 1) : s[k] = ">"}
        last == IF closed = {} THEN 0 ELSE CHOOSE k \in closed : \A m \in closed : m <= k
    IN  /\ \E j \in (last + 1)..i : s[j] = "<"
        /\ \E k \in i..Len(s) : s[k] = ">"

\* Regex::replace_all(<[^>]*>, ""): leftmost non-overlapping matches, each
\* from a '<' to the first '>' after it
StripGenerics(s) == KeepAt(s, LAMBDA i : ~InGeneric(s, i))

\* str::is_char_boundary(n), n in bytes
IsCharBoundary(s, n) == \E k \in 0..Len(s) : ByteLen(TakeChars(s, k)) = n

\* the outcome of a call that panics
Panic == <<"panic!">>

\* a truncate that leaves the string as it is
TruncateNothing(s, new_len) == s

\* String::truncate(new_len): panics off a character boundary
Truncate(s, new_len) ==
    IF new_len >= ByteLen(s) THEN s
    ELSE IF IsCharBoundary(s, new_len)
         THEN TakeChars(s, CHOOSE k \in 0..Len(s) : ByteLen(TakeChars(s, k)) = new_len)
         ELSE Panic

(***************************************************************************)
(* symbol_to_path                                                          *)
(***************************************************************************)

\* maximum identifier length, in bytes
MaxIdLen == 128

\* the "rust-analyzer cargo " prefix is dropped
StripCargoPrefix(symbol) ==
    LET parts == SplitWhitespace(symbol)
        cargo == <<"c", "a", "r", "g", "o">>
        ra    == <<"r", "u", "s", "t", "-", "a", "n", "a", "l", "y", "z", "e", "r">>
        pos   == Find(symbol, cargo \o <<" ">>)
    IN  IF Len(parts) >= 2 /\ parts[1] = ra /\ parts[2] = cargo /\ IsSome(pos)
        THEN DropChars(symbol, Unwrap(pos) + 6)
        ELSE symbol

\* everything up to the first space after the first digit (package and
\* version) is dropped, and the rest trimmed
StripVersion(s) ==
    LET pos == FindDigit(s)
        space_pos == IF pos = None THEN None ELSE Find(DropChars(s, Unwrap(pos)), <<" ">>)
    IN  IF IsSome(pos) /\ IsSome(space_pos)
        THEN Trim(DropChars(s, Unwrap(pos) + Unwrap(space_pos) + 1))
        ELSE s

\* the chain of replacements that builds clean_path
CleanPath(s) ==
    LET s1 == TrimEndMatches(s, ".")
        s2 == ReplaceChar(s1, "-", "_")
        s3 == ReplaceChar(s2, "[", "/")
        s4 == ReplaceChar(s3, "]", "/")
        s5 == ReplaceChar(s4, "#", "/")
        s6 == TrimEndMatches(s5, "/")
        s7 == RemoveChars(s6, {"U+0060", "(", ")", "[", "]"})
        s8 == ReplaceSlashSlash(s7)
    IN  StripGenerics(s8)

\* symbol_to_path without the step that appends the display name
symbol_to_path_unnamed(symbol, display_name) ==
    LET clean_path == CleanPath(StripVersion(StripCargoPrefix(symbol)))
    IN  IF ByteLen(clean_path) > MaxIdLen THEN Truncate(clean_path, MaxIdLen)
        ELSE clean_path

symbol_to_path(symbol, display_name) ==
    LET clean_path == CleanPath(StripVersion(StripCargoPrefix(symbol)))
        named == IF EndsWith(clean_path, display_name) THEN clean_path
                 ELSE clean_path \o <<"/">> \o display_name
    IN  IF ByteLen(named) > MaxIdLen THEN Truncate(named, MaxIdLen) ELSE named

(***************************************************************************)
(* The index (ScipIndex) and the inputs of one run.                        *)
(*                                                                         *)
(* A raw symbol string is held by a short name; RawSymbol gives its        *)
(* characters.  Distinct names have distinct characters, so equality of    *)
(* names is equality of the raw strings.                                   *)
(***************************************************************************)

SymbolPool == {"F", "G", "H"}

RawSymbol(sym) ==
    CASE sym = "F" -> <<"r", "u", "s", "t", "-", "a", "n", "a", "l", "y", "z", "e", "r", " ", "c", "a", "r", "g", "o", " ", "p", " ", "0", ".", "1", ".", "0", " ", "m", "/", "f", "o", "o", "(", ")", ".">>
      [] sym = "G" -> <<"r", "u", "s", "t", "-", "a", "n", "a", "l", "y", "z", "e", "r", " ", "c", "a", "r", "g", "o", " ", "p", " ", "0", ".", "1", ".", "0", " ", "m", "/", "i", "m", "p", "l", "#", "[", "T", "]", "[", "U+0060", "M", "u", "l", "<", "A", ">", "U+0060", "]", "b", "a", "r", "(", ")", ".">>
      [] sym = "H" -> <<"r", "u", "s", "t", "-", "a", "n", "a", "l", "y", "z", "e", "r", " ", "c", "a", "r", "g", "o", " ", "p", " ", "0", ".", "1", ".", "0", " ", "m", "/", "i", "m", "p", "l", "#", "[", "T", "]", "[", "U+0060", "M", "u", "l", "<", "B", ">", "U+0060", "]", "b", "a", "r", "(", ")", ".">>

\* display names found in the index
Foo == <<"f", "o", "o">>
Bar == <<"b", "a", "r">>

\* Document.relative_path of the two documents of the index
PathA == <<"a", "/", "x", ".", "r", "s">>
PathB == <<"/", "y", ".", "r", "s">>

\* Metadata.project_root
RootPool == {<<"f", "i", "l", "e", ":", "/", "/", "/", "r">>}

Sym(symbol, kind, display_name, enclosing_symbol) ==
    [symbol |-> symbol, kind |-> kind, display_name |-> display_name,
     enclosing_symbol |-> enclosing_symbol]

\* an occurrence before its range is known
Occ(symbol, symbol_roles) == [symbol |-> symbol, symbol_roles |-> symbol_roles]

\* the k-th occurrence of a document stands on line k - 1 (ranges are
\* 0-based: [line, start character, end character])
WithRanges(occs) ==
    [k \in 1..Len(occs) |->
        [range |-> <<k - 1, 3, 6>>, symbol |-> occs[k].symbol,
         symbol_roles |-> occs[k].symbol_roles]]

Doc(relative_path, occs, symbols) ==
    [relative_path |-> relative_path, occurrences |-> WithRanges(occs),
     symbols |-> symbols]

(***************************************************************************)
(* build_call_graph                                                        *)
(***************************************************************************)

VARIABLES
    documents,              \* scip_data.documents
    project_root,           \* scip_data.metadata.project_root
    files,                  \* the file system: path -> Option<lines>
    pc,                     \* position of the run
    doc_idx,                \* document reached by pass 1 / pass 2
    occ_pos,                \* occurrence reached by pass 3 (document order)
    function_symbols,
    symbol_enclosure,
    symbol_to_display_name,
    call_graph,
    current_symbol,         \* the enclosure walk of pass 3
    atoms,                  \* the records written by the export
    order                   \* HashMap iteration order taken by the export

\* the state of one run of build_call_graph and of the export
graph_vars == <<documents, project_root, files, pc, doc_idx, occ_pos,
                function_symbols, symbol_enclosure, symbol_to_display_name,
                call_graph, current_symbol, atoms, order>>

\* The functions that are also called on their own, each with the
\* variables of one call: its arguments, and its result once it returned.
VARIABLES
    stp_symbol,             \* symbol_to_path: symbol
    stp_display_name,       \* symbol_to_path: display_name
    stp_result,             \* symbol_to_path: None until it has returned
    fbm_spans,              \* find_best_match: spans
    fbm_name,               \* find_best_match: name
    fbm_approx_line,        \* find_best_match: approx_line
    fbm_result,             \* find_best_match: None until it has returned
    ext_lines,              \* pass 4 on one node: the lines of its file
    ext_start_line,         \* pass 4 on one node: node.range[0]
    ext_body,               \* pass 4 on one node: None until it is done
    cache,                  \* FileSpanCache.cache
    disk,                   \* the files the parser reads: path -> outcome
    parses,                 \* the paths the parser was run on, in order
    reply                   \* what the last call on the cache returned

stp_vars == <<stp_symbol, stp_display_name, stp_result>>
fbm_vars == <<fbm_spans, fbm_name, fbm_approx_line, fbm_result>>
ext_vars == <<ext_lines, ext_start_line, ext_body>>
cache_vars == <<cache, disk, parses, reply>>

\* the variables a run of build_call_graph leaves alone
aux == <<stp_vars, fbm_vars, ext_vars, cache_vars>>

vars == <<graph_vars, aux>>

\* no call of symbol_to_path on its own is under way
StpIdle == stp_symbol = <<>> /\ stp_display_name = <<>> /\ stp_result = <<>>

\* no call of find_best_match on its own is under way
FbmIdle ==
    fbm_spans = <<>> /\ fbm_name = <<>> /\ fbm_approx_line = 0 /\ fbm_result = <<>>

\* no extraction on a single node is under way
ExtIdle == ext_lines = <<>> /\ ext_start_line = 0 /\ ext_body = <<>>

\* no FileSpanCache exists
CacheIdle == cache = <<>> /\ disk = <<>> /\ parses = <<>> /\ reply = <<>>

inputs == <<documents, project_root, files>>

Unknown == <<"u", "n", "k", "n", "o", "w", "n">>

\* HashMap::insert
Insert(map, k, v) == [x \in DOMAIN map \cup {k} |-> IF x = k THEN v ELSE map[x]]

\* HashMap::get
Get(map, k) == IF k \in DOMAIN map THEN Some(map[k]) ELSE None

EmptyMap == [x \in {} |-> None]

\* is_function_like taking Module (29) for a callable kind
is_function_like_with_module(kind) == kind \in {6, 17, 26, 29, 80}

\* is_function_like taking a kind it does not know for a callable kind
is_function_like_or_unknown(kind) == kind \in {6, 17, 26, 80} \/ kind > 100

is_function_like(kind) == kind \in {6, 17, 26, 80}

\* is_definition taking any present symbol_roles for a definition
is_definition_any_role(occurrence) == IsSome(occurrence.symbol_roles)

\* occurrence.symbol_roles.unwrap_or(0) & 1 == 1
is_definition(occurrence) ==
    LET roles == IF IsSome(occurrence.symbol_roles)
                 THEN Unwrap(occurrence.symbol_roles) ELSE 0
    IN  roles % 2 = 1

\* all occurrences of the index, in document order then occurrence order,
\* each with the index of its document
RECURSIVE AllOccurrences(_, _)
AllOccurrences(docs, d) ==
    IF d > Len(docs) THEN <<>>
    ELSE [k \in 1..Len(docs[d].occurrences) |->
            [doc |-> d, occurrence |-> docs[d].occurrences[k]]]
         \o AllOccurrences(docs, d + 1)

\* --- Pass 1: the lookup maps, one document's symbols at a time ---
RECURSIVE CollectSymbols(_, _, _)
CollectSymbols(symbols, i, maps) ==
    IF i > Len(symbols) THEN maps
    ELSE LET symbol == symbols[i]
             enclosure == IF IsSome(symbol.enclosing_symbol)
                          THEN Insert(maps.symbol_enclosure, symbol.symbol,
                                      Unwrap(symbol.enclosing_symbol))
                          ELSE maps.symbol_enclosure
             callable == is_function_like(symbol.kind)
         IN  CollectSymbols(symbols, i + 1,
               [symbol_enclosure |-> enclosure,
                function_symbols |->
                    IF callable THEN maps.function_symbols \cup {symbol.symbol}
                    ELSE maps.function_symbols,
                symbol_to_display_name |->
                    IF callable
                    THEN Insert(maps.symbol_to_display_name, symbol.symbol,
                                IF IsSome(symbol.display_name)
                                THEN Unwrap(symbol.display_name) ELSE Unknown)
                    ELSE maps.symbol_to_display_name])

Pass1Doc ==
    /\ UNCHANGED aux
    /\ pc = "pass1"
    /\ LET maps == CollectSymbols(documents[doc_idx].symbols, 1,
                      [symbol_enclosure |-> symbol_enclosure,
                       function_symbols |-> function_symbols,
                       symbol_to_display_name |-> symbol_to_display_name])
       IN  /\ symbol_enclosure' = maps.symbol_enclosure
           /\ function_symbols' = maps.function_symbols
           /\ symbol_to_display_name' = maps.symbol_to_display_name
    /\ IF doc_idx < Len(documents)
       THEN doc_idx' = doc_idx + 1 /\ pc' = "pass1"
       ELSE doc_idx' = 1 /\ pc' = "pass2"
    /\ UNCHANGED <<inputs, occ_pos, call_graph, current_symbol, atoms, order>>

\* --- Pass 2: nodes from Definition occurrences ---
rel_path_str(doc) == TrimStartMatches(doc.relative_path, <<"/">>)

abs_path_str(root, doc) == root \o <<"/">> \o rel_path_str(doc)

\* NodeKey keying on the cleaned path of the symbol instead of the raw string
NodeKeyCleaned(symbol) ==
    CHOOSE s \in SymbolPool :
        CleanPath(StripVersion(StripCargoPrefix(RawSymbol(s))))
            = CleanPath(StripVersion(StripCargoPrefix(RawSymbol(symbol))))

\* the key under which a node is stored: the exact raw symbol
NodeKey(symbol) == symbol

NewNode(root, doc, occurrence, names) ==
    [symbol |-> occurrence.symbol,
     display_name |-> IF IsSome(Get(names, occurrence.symbol))
                      THEN Unwrap(Get(names, occurrence.symbol)) ELSE Unknown,
     file_path |-> abs_path_str(root, doc),
     relative_path |-> rel_path_str(doc),
     callers |-> {},
     callees |-> {},
     range |-> occurrence.range,
     body |-> None]

RECURSIVE SeedNodesAnyOccurrence(_, _, _, _, _, _)
\* SeedNodes creating the node at the first occurrence met, definition or not
SeedNodesAnyOccurrence(root, doc, i, fsyms, names, graph) ==
    IF i > Len(doc.occurrences) THEN graph
    ELSE LET occurrence == doc.occurrences[i]
             key == NodeKey(occurrence.symbol)
         IN  SeedNodesAnyOccurrence(root, doc, i + 1, fsyms, names,
               IF occurrence.symbol \in fsyms /\ key \notin DOMAIN graph
               THEN Insert(graph, key, NewNode(root, doc, occurrence, names))
               ELSE graph)

RECURSIVE SeedNodesOverwriting(_, _, _, _, _, _)
\* SeedNodes where a later Definition occurrence replaces the node
SeedNodesOverwriting(root, doc, i, fsyms, names, graph) ==
    IF i > Len(doc.occurrences) THEN graph
    ELSE LET occurrence == doc.occurrences[i]
             key == NodeKey(occurrence.symbol)
         IN  SeedNodesOverwriting(root, doc, i + 1, fsyms, names,
               IF is_definition(occurrence) /\ occurrence.symbol \in fsyms
               THEN Insert(graph, key, NewNode(root, doc, occurrence, names))
               ELSE graph)

RECURSIVE SeedNodes(_, _, _, _, _, _)
SeedNodes(root, doc, i, fsyms, names, graph) ==
    IF i > Len(doc.occurrences) THEN graph
    ELSE LET occurrence == doc.occurrences[i]
             key == NodeKey(occurrence.symbol)
         IN  SeedNodes(root, doc, i + 1, fsyms, names,
               IF is_definition(occurrence) /\ occurrence.symbol \in fsyms
                  /\ key \notin DOMAIN graph    \* entry().or_insert_with()
               THEN Insert(graph, key, NewNode(root, doc, occurrence, names))
               ELSE graph)

\* where pass 3 stands after the occurrence at position pos is dealt with
AfterOccurrence(pos) ==
    IF pos < Len(AllOccurrences(documents, 1)) THEN "pass3" ELSE "pass4"

\* Pass2Doc leaving for pass 3 once the first document is seeded
Pass2DocFirstOnly ==
    /\ UNCHANGED aux
    /\ pc = "pass2"
    /\ call_graph' = SeedNodes(project_root, documents[doc_idx], 1,
                               function_symbols, symbol_to_display_name, call_graph)
    /\ doc_idx' = doc_idx
    /\ pc' = AfterOccurrence(0)
    /\ UNCHANGED <<inputs, occ_pos, function_symbols, symbol_enclosure,
                   symbol_to_display_name, current_symbol, atoms, order>>

Pass2Doc ==
    /\ UNCHANGED aux
    /\ pc = "pass2"
    /\ call_graph' = SeedNodes(project_root, documents[doc_idx], 1,
                               function_symbols, symbol_to_display_name, call_graph)
    /\ IF doc_idx < Len(documents)
       THEN doc_idx' = doc_idx + 1 /\ pc' = "pass2"
       ELSE doc_idx' = doc_idx /\ pc' = AfterOccurrence(0)
    /\ UNCHANGED <<inputs, occ_pos, function_symbols, symbol_enclosure,
                   symbol_to_display_name, current_symbol, atoms, order>>

\* --- Pass 3: edges, by walking the enclosure chain ---
CurrentOccurrence == AllOccurrences(documents, 1)[occ_pos].occurrence

\* the next occurrence is taken; a call site starts an enclosure walk
Pass3Occurrence ==
    /\ UNCHANGED aux
    /\ pc = "pass3"
    /\ LET occurrence == CurrentOccurrence
       IN  IF ~is_definition(occurrence) /\ occurrence.symbol \in function_symbols
           THEN /\ current_symbol' = occurrence.symbol
                /\ pc' = "walk"
                /\ occ_pos' = occ_pos
           ELSE /\ current_symbol' = current_symbol
                /\ pc' = AfterOccurrence(occ_pos)
                /\ occ_pos' = occ_pos + 1
    /\ UNCHANGED <<inputs, doc_idx, function_symbols, symbol_enclosure,
                   symbol_to_display_name, call_graph, atoms, order>>

\* AddEdge that forgets the callee's callers set
AddEdgeCalleesOnly(graph, caller_symbol, callee_symbol) ==
    [k \in DOMAIN graph |->
        [graph[k] EXCEPT
            !.callees = IF k = NodeKey(caller_symbol) THEN @ \cup {callee_symbol} ELSE @]]

\* AddEdge that first creates the node of a callee that has none
AddEdgeSeeding(graph, caller_symbol, callee_symbol) ==
    LET key == NodeKey(callee_symbol)
        blank == [symbol |-> callee_symbol, display_name |-> Unknown,
                  file_path |-> <<>>, relative_path |-> <<>>,
                  callers |-> {caller_symbol}, callees |-> {},
                  range |-> <<>>, body |-> None]
    IN  [k \in DOMAIN graph \cup {key} |->
            IF k \notin DOMAIN graph THEN blank
            ELSE [graph[k] EXCEPT
                    !.callees = IF k = NodeKey(caller_symbol)
                                THEN @ \cup {callee_symbol} ELSE @,
                    !.callers = IF k = key THEN @ \cup {caller_symbol} ELSE @]]

\* caller_node.callees.insert(callee), callee_node.callers.insert(caller),
\* each on the node that exists
AddEdge(graph, caller_symbol, callee_symbol) ==
    [k \in DOMAIN graph |->
        [graph[k] EXCEPT
            !.callees = IF k = NodeKey(caller_symbol) THEN @ \cup {callee_symbol} ELSE @,
            !.callers = IF k = NodeKey(callee_symbol) THEN @ \cup {caller_symbol} ELSE @]]

\* RecordEdge without the self-call test
RecordEdgeAlways(graph, caller_symbol, callee_symbol) ==
    AddEdge(graph, caller_symbol, callee_symbol)

\* RecordEdge with caller and callee exchanged
RecordEdgeReversed(graph, caller_symbol, callee_symbol) ==
    IF caller_symbol # callee_symbol
    THEN AddEdge(graph, callee_symbol, caller_symbol)
    ELSE graph

\* the edge found by a walk: no edge from a symbol to itself
RecordEdge(graph, caller_symbol, callee_symbol) ==
    IF caller_symbol # callee_symbol
    THEN AddEdge(graph, caller_symbol, callee_symbol)
    ELSE graph

\* WalkStep that takes the first enclosing symbol as the caller, callable or
\* not
WalkStepFirstAncestor ==
    /\ UNCHANGED aux
    /\ pc = "walk"
    /\ LET callee_symbol == CurrentOccurrence.symbol
           enclosing == Get(symbol_enclosure, current_symbol)
       IN  IF enclosing = None
           THEN /\ pc' = AfterOccurrence(occ_pos)
                /\ occ_pos' = occ_pos + 1
                /\ UNCHANGED <<call_graph, current_symbol>>
           ELSE /\ call_graph' = RecordEdge(call_graph, Unwrap(enclosing), callee_symbol)
                /\ pc' = AfterOccurrence(occ_pos)
                /\ occ_pos' = occ_pos + 1
                /\ UNCHANGED current_symbol
    /\ UNCHANGED <<inputs, doc_idx, function_symbols, symbol_enclosure,
                   symbol_to_display_name, atoms, order>>

\* one evaluation of `while let Some(enclosing_symbol) = ...` and its body
WalkStep ==
    /\ UNCHANGED aux
    /\ pc = "walk"
    /\ LET callee_symbol == CurrentOccurrence.symbol
           enclosing == Get(symbol_enclosure, current_symbol)
       IN  IF enclosing = None
           THEN /\ pc' = AfterOccurrence(occ_pos)
                /\ occ_pos' = occ_pos + 1
                /\ UNCHANGED <<call_graph, current_symbol>>
           ELSE IF Unwrap(enclosing) \in function_symbols
           THEN /\ call_graph' = RecordEdge(call_graph, Unwrap(enclosing), callee_symbol)
                /\ pc' = AfterOccurrence(occ_pos)
                /\ occ_pos' = occ_pos + 1
                /\ UNCHANGED current_symbol
           ELSE /\ current_symbol' = Unwrap(enclosing)
                /\ UNCHANGED <<call_graph, pc, occ_pos>>
    /\ UNCHANGED <<inputs, doc_idx, function_symbols, symbol_enclosure,
                   symbol_to_display_name, atoms, order>>

\* --- Pass 4: function bodies from the source files ---
RECURSIVE Lines(_)
\* str::lines, collected
Lines(contents) ==
    LET pos == Find(contents, <<"\n">>)
        raw == TakeChars(contents, Unwrap(pos))
        line == IF EndsWith(raw, <<"\r">>) THEN TakeChars(raw, Len(raw) - 1) ELSE raw
    IN  IF contents = <<>> THEN <<>>
        ELSE IF pos = None THEN <<contents>>
        ELSE <<line>> \o Lines(DropChars(contents, Unwrap(pos) + 1))

RECURSIVE JoinLines(_)
\* body_lines.join("\n")
JoinLines(lines) ==
    IF lines = <<>> THEN <<>>
    ELSE IF Len(lines) = 1 THEN lines[1]
    ELSE lines[1] \o <<"\n">> \o JoinLines(Tail(lines))

\* (n as usize) < len, n an i32: a negative n becomes at least 2^64 - 2^31,
\* which no length reaches
AsUsizeBelow(n, len) == n >= 0 /\ n < len

\* the backward scan: the nearest line at or before start_line (0-based)
\* that contains "fn ", start_line itself when there is none
ActualStartLine(lines, start_line) ==
    LET hits == {i \in 0..start_line :
                    \/ Contains(lines[i + 1], <<"f", "n", " ">>)
                    \/ Contains(lines[i + 1], <<"c", "o", "n", "s", "t", " ", "f", "n", " ">>)}
    IN  IF hits = {} THEN start_line
        ELSE CHOOSE i \in hits : \A j \in hits : j <= i

\* a.saturating_sub(b) on usize
SaturatingSub(a, b) == IF a > b THEN a - b ELSE 0

RECURSIVE ScanForward(_, _, _, _, _)
\* the forward scan from line_idx (0-based): the lines pushed to body_lines
ScanForward(lines, line_idx, open_braces, found_first_brace, body_lines) ==
    IF line_idx >= Len(lines) THEN body_lines
    ELSE LET line == lines[line_idx + 1]
             pushed == Append(body_lines, line)
             found == found_first_brace \/ Contains(line, <<"{">>)
             open == IF found
                     THEN SaturatingSub(open_braces + CountChar(line, "{"),
                                        CountChar(line, "}"))
                     ELSE open_braces
         IN  IF found /\ open = 0 THEN pushed
             ELSE ScanForward(lines, line_idx + 1, open, found, pushed)

\* the text extracted for a definition on start_line (0-based, inside the file)
ExtractBody(lines, start_line) ==
    JoinLines(ScanForward(lines, ActualStartLine(lines, start_line), 0, FALSE, <<>>))

\* the path handed to fs::read_to_string
clean_path(file_path) ==
    IF StartsWith(file_path, <<"f", "i", "l", "e", ":", "/", "/">>)
    THEN TrimStartMatches(file_path, <<"f", "i", "l", "e", ":", "/", "/">>)
    ELSE file_path

\* fs::read_to_string: Some(contents), None when the read fails
ReadToString(fs, path) == IF path \in DOMAIN fs THEN fs[path] ELSE None

\* NodeBody leaving an empty body, not an absent one, when nothing is extracted
NodeBodyEmptyOnFailure(fs, node) ==
    LET contents == ReadToString(fs, clean_path(node.file_path))
        lines == Lines(Unwrap(contents))
        start_line == node.range[1]
    IN  IF node.range # <<>> /\ IsSome(contents) /\ AsUsizeBelow(start_line, Len(lines))
        THEN Some(ExtractBody(lines, start_line))
        ELSE Some(<<>>)

\* node.body after pass 4 has visited the node
NodeBody(fs, node) ==
    LET contents == ReadToString(fs, clean_path(node.file_path))
        lines == Lines(Unwrap(contents))
        start_line == node.range[1]
    IN  IF node.range # <<>> /\ IsSome(contents) /\ AsUsizeBelow(start_line, Len(lines))
        THEN Some(ExtractBody(lines, start_line))
        ELSE node.body

Pass4 ==
    /\ UNCHANGED aux
    /\ pc = "pass4"
    /\ call_graph' = [k \in DOMAIN call_graph |->
                        [call_graph[k] EXCEPT !.body = NodeBody(files, call_graph[k])]]
    /\ pc' = "built"
    /\ UNCHANGED <<inputs, doc_idx, occ_pos, function_symbols, symbol_enclosure,
                   symbol_to_display_name, current_symbol, atoms, order>>

(***************************************************************************)
(* write_call_graph_as_atoms_json                                          *)
(***************************************************************************)

\* std::path: the components of a path.  Empty segments and "." segments
\* are skipped, except a leading "." ; a leading '/' is the root component
RootDir == <<"/">>
CurDir == <<".">>
ParentDir == <<".", ".">>

RECURSIVE SplitSlash(_)
SplitSlash(p) ==
    LET pos == Find(p, <<"/">>)
    IN  IF pos = None THEN <<p>>
        ELSE <<TakeChars(p, Unwrap(pos))>> \o SplitSlash(DropChars(p, Unwrap(pos) + 1))

Components(p) ==
    LET segs == SplitSlash(p)
        has_root == StartsWith(p, <<"/">>)
        kept == SelectSeq(segs, LAMBDA seg : seg # <<>> /\ seg # CurDir)
        lead == IF has_root THEN <<RootDir>>
                ELSE IF segs[1] = CurDir THEN <<CurDir>> ELSE <<>>
    IN  IF p = <<>> THEN <<>> ELSE lead \o kept

\* Path::file_name, on components
FileName(comps) ==
    IF comps = <<>> \/ comps[Len(comps)] \in {RootDir, CurDir, ParentDir}
    THEN None
    ELSE Some(comps[Len(comps)])

\* Path::parent, on components
Parent(comps) ==
    IF comps = <<>> \/ comps[Len(comps)] = RootDir
    THEN None
    ELSE Some(SubSeq(comps, 1, Len(comps) - 1))

RECURSIVE PathStr(_)
\* the text of a path given by its components
PathStr(comps) ==
    IF comps = <<>> THEN <<>>
    ELSE IF Len(comps) = 1 THEN comps[1]
    ELSE IF comps[1] = RootDir THEN RootDir \o PathStr(Tail(comps))
    ELSE comps[1] \o <<"/">> \o PathStr(Tail(comps))

Root == <<"r", "o", "o", "t">>

file_name(relative_path) ==
    LET name == FileName(Components(relative_path))
    IN  IF IsSome(name) THEN Unwrap(name) ELSE <<>>

parent_folder(relative_path) ==
    LET parent == Parent(Components(relative_path))
        name == IF IsSome(parent) THEN FileName(Unwrap(parent)) ELSE None
    IN  IF IsSome(name) THEN Unwrap(name)
        ELSE IF IsSome(parent) /\ PathStr(Unwrap(parent)) # <<>>
        THEN PathStr(Unwrap(parent))
        ELSE Root

\* the sequences that enumerate the set S, each element once: the orders in
\* which a HashSet or HashMap may be iterated
Orderings(S) ==
    {seq \in [1..Cardinality(S) -> S] : \A i, j \in 1..Cardinality(S) : seq[i] = seq[j] => i = j}

\* Deps that keeps an entry for a callee without a node
DepsWithDangling(graph, callees) ==
    [i \in 1..Len(callees) |->
        IF NodeKey(callees[i]) \in DOMAIN graph
        THEN symbol_to_path(RawSymbol(graph[NodeKey(callees[i])].symbol),
                            graph[NodeKey(callees[i])].display_name)
        ELSE symbol_to_path(RawSymbol(callees[i]), Unknown)]

\* deps: filter_map(get) then map(symbol_to_path) over the callees as iterated
Deps(graph, callees) ==
    LET present == SelectSeq(callees, LAMBDA callee : NodeKey(callee) \in DOMAIN graph)
    IN  [i \in 1..Len(present) |->
            symbol_to_path(RawSymbol(graph[NodeKey(present[i])].symbol),
                           graph[NodeKey(present[i])].display_name)]

Function == <<"f", "u", "n", "c", "t", "i", "o", "n">>

\* MakeAtom deriving file name and parent folder from the absolute path
MakeAtomFromFullPath(graph, node, callees) ==
    [identifier |-> symbol_to_path(RawSymbol(node.symbol), node.display_name),
     statement_type |-> Function,
     deps |-> Deps(graph, callees),
     body |-> IF IsSome(node.body) THEN Unwrap(node.body) ELSE <<>>,
     display_name |-> node.display_name,
     full_path |-> node.file_path,
     relative_path |-> node.relative_path,
     file_name |-> file_name(node.file_path),
     parent_folder |-> parent_folder(node.file_path)]

MakeAtom(graph, node, callees) ==
    [identifier |-> symbol_to_path(RawSymbol(node.symbol), node.display_name),
     statement_type |-> Function,
     deps |-> Deps(graph, callees),
     body |-> IF IsSome(node.body) THEN Unwrap(node.body) ELSE <<>>,
     display_name |-> node.display_name,
     full_path |-> node.file_path,
     relative_path |-> node.relative_path,
     file_name |-> file_name(node.relative_path),
     parent_folder |-> parent_folder(node.relative_path)]

RECURSIVE CalleeOrders(_, _)
\* one iteration order of its callees for every node in keys
CalleeOrders(graph, keys) ==
    IF keys = {} THEN {EmptyMap}
    ELSE LET k == CHOOSE x \in keys : TRUE
         IN  {Insert(f, k, o) : f \in CalleeOrders(graph, keys \ {k}),
                                o \in Orderings(graph[k].callees)}

AtomPanics(atom) == atom.identifier = Panic \/ \E i \in 1..Len(atom.deps) : atom.deps[i] = Panic

Export ==
    /\ UNCHANGED aux
    /\ pc = "built"
    /\ \E node_order \in Orderings(DOMAIN call_graph),
          callee_order \in CalleeOrders(call_graph, DOMAIN call_graph) :
         LET out == [i \in 1..Len(node_order) |->
                        MakeAtom(call_graph, call_graph[node_order[i]],
                                 callee_order[node_order[i]])]
         IN  IF \E i \in 1..Len(out) : AtomPanics(out[i])
             THEN pc' = "panicked" /\ UNCHANGED <<atoms, order>>
             ELSE pc' = "exported" /\ atoms' = out /\ order' = node_order
    /\ UNCHANGED <<inputs, doc_idx, occ_pos, function_symbols, symbol_enclosure,
                   symbol_to_display_name, call_graph, current_symbol>>

(***************************************************************************)
(* The runs explored.                                                      *)
(***************************************************************************)

\* bound on the number of occurrences of an index whose occurrences vary
MaxOccs == 3

\* sequences over S of length at most n
SeqsUpTo(S, n) == UNION {[1..k -> S] : k \in 0..n}

\* symbol_roles found in the index: absent, a role without the Definition
\* bit (2 = Import), Definition alone, Definition with another bit
RolePool == {None, Some(2), Some(3)}

\* catalogs: the symbols of document A and of document B
\* - top-level callables
FlatCatalog ==
    <<  <<Sym("F", 17, Some(Foo), None)>>,
        <<Sym("G", 6, Some(Bar), None), Sym("H", 17, Some(Bar), None)>>  >>
\* - a constructor G and a macro H declared inside F
NestedCatalog ==
    <<  <<Sym("F", 17, Some(Foo), None), Sym("G", 26, Some(Bar), Some("F")),
          Sym("H", 80, Some(Bar), Some("F"))>>,
        <<>>  >>
\* - G inside H, of a kind that does not exist, inside F; G is listed twice,
\*   as a module and as a function; F has no name
ChainCatalog ==
    <<  <<Sym("G", 29, None, None)>>,
        <<Sym("F", 17, None, None), Sym("H", 999, Some(Bar), Some("F")),
          Sym("G", 17, Some(Bar), Some("H"))>>  >>

CatalogPool == {FlatCatalog, NestedCatalog, ChainCatalog}

OccPool == {Occ(symbol, roles) : symbol \in {"F", "G"}, roles \in RolePool}

\* the ways to lay at most n occurrences of OccPool over two documents
OccLayouts(n) ==
    UNION {{<<SubSeq(q, 1, k), SubSeq(q, k + 1, Len(q))>> : k \in 0..Len(q)} :
            q \in SeqsUpTo(OccPool, n)}

\* indexes whose occurrences vary, over a catalog of CatalogPool
OccIndexes ==
    {<<Doc(PathA, occs[1], cat[1]), Doc(PathB, occs[2], cat[2])>> :
        occs \in OccLayouts(MaxOccs), cat \in CatalogPool}

\* the entries a catalog may hold for a symbol: none, or one entry in
\* document A or B, callable (17) or not (29), enclosed by any symbol or none
NameOf(symbol) == IF symbol = "F" THEN Some(Foo) ELSE Some(Bar)

EntryPool(symbol) ==
    {<<>>} \cup
    {<<doc, Sym(symbol, kind, NameOf(symbol), enclosing)>> :
        doc \in {1, 2}, kind \in {17, 29},
        enclosing \in {None} \cup {Some(e) : e \in SymbolPool}}

\* the symbols of document doc, given the entries chosen for F, G and H
SymbolsOf(doc, entries) ==
    LET listed == SelectSeq(entries, LAMBDA e : e # <<>> /\ e[1] = doc)
    IN  [i \in 1..Len(listed) |-> listed[i][2]]

\* F is defined in document A, where G and H are referenced; G and H are
\* defined in document B (G twice), where F is referenced
FixedOccsA == <<Occ("F", Some(1)), Occ("G", None), Occ("H", Some(0))>>
FixedOccsB == <<Occ("G", Some(1)), Occ("H", Some(3)), Occ("G", Some(1)), Occ("F", Some(2))>>

\* indexes whose catalog varies, over fixed occurrences
CatalogIndexes ==
    {<<Doc(PathA, FixedOccsA, SymbolsOf(1, entries)),
       Doc(PathB, FixedOccsB, SymbolsOf(2, entries))>> :
        entries \in EntryPool("F") \X EntryPool("G") \X EntryPool("H")}

IndexPool == OccIndexes \cup CatalogIndexes

\* the source files on disk: the file of document A exists, that of B does not
FileSystem ==
    (<<"/", "r", "/", "a", "/", "x", ".", "r", "s">> :> Some(<<"f", "n", " ", "f", "o", "o", "(", ")", " ", "{", "\n", " ", "b", "a", "r", "(", ")", ";", "\n", "}", "\n">>))

\* both files exist, that of document B with a single line, so that
\* definitions of B lie beyond the end of their file
ShortFileSystem ==
    (<<"/", "r", "/", "a", "/", "x", ".", "r", "s">> :> Some(<<"f", "n", " ", "f", "o", "o", "(", ")", " ", "{", "\n", " ", "b", "a", "r", "(", ")", ";", "\n", "}", "\n">>))
    @@ (<<"/", "r", "/", "y", ".", "r", "s">> :> Some(<<"f", "n", " ", "b", "a", "r", "(", ")", " ", "{", "}", "\n">>))

\* the indexes run over ShortFileSystem: the fixed occurrences over the
\* catalogs of CatalogPool
ShortIndexes ==
    {<<Doc(PathA, FixedOccsA, cat[1]), Doc(PathB, FixedOccsB, cat[2])>> :
        cat \in CatalogPool}

Init ==
    /\ \/ documents \in IndexPool /\ files = FileSystem
       \/ documents \in ShortIndexes /\ files = ShortFileSystem
    /\ project_root \in RootPool
    /\ pc = "pass1"
    /\ doc_idx = 1
    /\ occ_pos = 1
    /\ function_symbols = {}
    /\ symbol_enclosure = EmptyMap
    /\ symbol_to_display_name = EmptyMap
    /\ call_graph = EmptyMap
    /\ current_symbol = ""
    /\ atoms = <<>>
    /\ order = <<>>
    /\ StpIdle /\ FbmIdle /\ ExtIdle /\ CacheIdle

Next ==
    \/ Pass1Doc
    \/ Pass2Doc
    \/ Pass3Occurrence
    \/ WalkStep
    \/ Pass4
    \/ Export

Spec == Init /\ [][Next]_vars

(***************************************************************************)
(* Properties.  The index is read here directly, not through the maps the  *)
(* run builds from it.                                                     *)
(***************************************************************************)

DocIds == 1..Len(documents)

\* the positions of the occurrences of a document
Places(d) == 1..Len(documents[d].occurrences)

\* S is listed with a callable kind in some document's symbols
Callable(S) ==
    \E d \in DocIds : \E i \in 1..Len(documents[d].symbols) :
        /\ documents[d].symbols[i].symbol = S
        /\ documents[d].symbols[i].kind \in {6, 17, 26, 80}

\* bit 0 of symbol_roles is set; an absent symbol_roles has no bit set
HasDefinitionRole(occurrence) ==
    occurrence.symbol_roles # <<>> /\ occurrence.symbol_roles[1] % 2 = 1

\* document d holds a Definition occurrence of S
DefinedIn(S, d) ==
    \E i \in 1..Len(documents[d].occurrences) :
        /\ documents[d].occurrences[i].symbol = S
        /\ HasDefinitionRole(documents[d].occurrences[i])

\* document d holds a non-definition occurrence of S
ReferencedIn(S, d) ==
    \E i \in 1..Len(documents[d].occurrences) :
        /\ documents[d].occurrences[i].symbol = S
        /\ ~HasDefinitionRole(documents[d].occurrences[i])

Defined(S) == \E d \in DocIds : DefinedIn(S, d)

Referenced(S) == \E d \in DocIds : ReferencedIn(S, d)

\* build_call_graph has returned call_graph
Returned == pc \in {"built", "exported", "panicked"}

Nodes == DOMAIN call_graph

\* the identifier the export gives to the node of S
IdentifierOf(S) == symbol_to_path(RawSymbol(S), call_graph[S].display_name)

\* C1: in the returned graph, for all symbols A and B that both have a node,
\* B is in A.callees if and only if A is in B.callers.
C1_Symmetry ==
    Returned =>
        \A A \in Nodes, B \in Nodes :
            (B \in call_graph[A].callees) <=> (A \in call_graph[B].callers)

\* C1 witness: a returned graph with an edge between two nodes
C1_Witness ==
    /\ Returned
    /\ \E A \in Nodes, B \in Nodes : A # B /\ B \in call_graph[A].callees

\* C2: when document D1 holds the Definition occurrence of callable S and
\* document D2 holds only non-definition occurrences of S, the node of S has
\* the relative path of D1 (as pass 2 derives it) and file_path =
\* project_root + "/" + that path, whatever the order of D1 and D2.
C2_Attribution ==
    Returned =>
        \A S \in SymbolPool : \A d1 \in DocIds, d2 \in DocIds :
            (Callable(S) /\ DefinedIn(S, d1) /\ ReferencedIn(S, d2) /\ ~DefinedIn(S, d2))
            => /\ S \in Nodes
               /\ call_graph[S].relative_path
                    = TrimStartMatches(documents[d1].relative_path, <<"/">>)
               /\ call_graph[S].file_path
                    = project_root \o <<"/">>
                        \o TrimStartMatches(documents[d1].relative_path, <<"/">>)

\* C2 witness: S is referenced in the first document and defined in the
\* second only, and S is listed among the symbols of the first document
C2_Witness ==
    /\ Returned
    /\ \E S \in SymbolPool :
        /\ Callable(S) /\ DefinedIn(S, 2) /\ ReferencedIn(S, 1) /\ ~DefinedIn(S, 1)
        /\ \E i \in 1..Len(documents[1].symbols) : documents[1].symbols[i].symbol = S
        /\ call_graph[S].relative_path # documents[1].relative_path

C4_NoMerge ==
    (pc = "exported") =>
        /\ Len(atoms) = Cardinality(Nodes)
        /\ \A S1 \in SymbolPool, S2 \in SymbolPool :
            (S1 # S2 /\ Callable(S1) /\ Defined(S1) /\ Callable(S2) /\ Defined(S2))
            => /\ S1 \in Nodes /\ S2 \in Nodes
               /\ call_graph[S1].symbol = S1 /\ call_graph[S2].symbol = S2
               /\ \E i \in 1..Len(atoms), j \in 1..Len(atoms) :
                    /\ i # j
                    /\ order[i] = S1 /\ atoms[i].identifier = IdentifierOf(S1)
                    /\ order[j] = S2 /\ atoms[j].identifier = IdentifierOf(S2)

\* C4 witness: two nodes exported with the same identifier
C4_Witness ==
    /\ pc = "exported"
    /\ \E i \in 1..Len(atoms), j \in 1..Len(atoms) :
        i # j /\ order[i] # order[j] /\ atoms[i].identifier = atoms[j].identifier

\* the Definition occurrences of S: document and range
DefinitionRanges(S) ==
    UNION {{<<d, documents[d].occurrences[i].range>> :
                i \in {j \in 1..Len(documents[d].occurrences) :
                    /\ documents[d].occurrences[j].symbol = S
                    /\ HasDefinitionRole(documents[d].occurrences[j])}} :
            d \in DocIds}

\* C5: when a callable raw symbol has Definition occurrences at different
\* ranges, the returned graph holds one entry per definition.
C5_AllDefinitionsCaptured ==
    Returned =>
        \A S \in SymbolPool :
            Callable(S) =>
                Cardinality({k \in Nodes : call_graph[k].symbol = S})
                    = Cardinality(DefinitionRanges(S))

\* the index has the end-to-end shape: document A holds the Definition of
\* F (foo) and then a call-site occurrence of G (bar), document B holds the
\* Definition of G, both callable
EndToEndIndex ==
    /\ Len(documents[1].occurrences) = 2
    /\ documents[1].occurrences[1].symbol = "F"
    /\ HasDefinitionRole(documents[1].occurrences[1])
    /\ documents[1].occurrences[2].symbol = "G"
    /\ ~HasDefinitionRole(documents[1].occurrences[2])
    /\ Len(documents[2].occurrences) = 1
    /\ documents[2].occurrences[1].symbol = "G"
    /\ HasDefinitionRole(documents[2].occurrences[1])
    /\ Callable("F") /\ Callable("G")

\* C6: end-to-end, foo in document A calls bar defined in document B:
\* foo.callees = {bar}, bar.callers = {foo}, and the record exported for foo
\* has exactly one dependency, symbol_to_path(bar's symbol, "bar").
C6_EndToEnd ==
    (Returned /\ EndToEndIndex) =>
        /\ call_graph["F"].callees = {"G"}
        /\ call_graph["G"].callers = {"F"}
        /\ (pc = "exported") =>
            \A i \in 1..Len(atoms) :
                order[i] = "F" => atoms[i].deps = <<symbol_to_path(RawSymbol("G"), Bar)>>

\* C7: in the returned graph no node holds its own symbol in its callees
\* set nor in its callers set.
C7_NoSelfEdges ==
    Returned =>
        \A A \in Nodes :
            A \notin call_graph[A].callees /\ A \notin call_graph[A].callers

\* C7 witness: a node whose symbol is recorded as its own enclosing symbol
\* and is referenced at a call site (a recursive call)
C7_Witness ==
    /\ Returned
    /\ \E A \in Nodes :
        /\ Referenced(A)
        /\ A \in DOMAIN symbol_enclosure
        /\ symbol_enclosure[A] = A

\* C8 as stated: every symbol in any node's callees or callers set is itself
\* the key of a node.
C8_EdgesBetweenNodes ==
    Returned =>
        \A A \in Nodes : (call_graph[A].callees \cup call_graph[A].callers) \subseteq Nodes

\* C8 amended: every symbol in any node's callees or callers set is a
\* callable symbol, and it is the key of a node exactly when it has a
\* Definition occurrence; edges are recorded only on nodes that exist.
C8_EdgesBetweenCallables ==
    Returned =>
        \A A \in Nodes : \A S \in call_graph[A].callees \cup call_graph[A].callers :
            /\ Callable(S)
            /\ (S \in Nodes) <=> Defined(S)

\* C8 witness: a node with a callee that has no node
C8_Witness ==
    /\ Returned
    /\ \E A \in Nodes : \E S \in call_graph[A].callees : S \notin Nodes

\* the identifiers of the callees of node S that have a node
CalleeIdentifiers(S) == {IdentifierOf(c) : c \in call_graph[S].callees \cap Nodes}

\* C9: for every node, the exported deps list consists of distinct
\* identifiers: symbol_to_path of each callee that has a node, each exactly
\* once, and nothing else.
C9_DepsDistinct ==
    (pc = "exported") =>
        \A i \in 1..Len(atoms) :
            /\ {atoms[i].deps[j] : j \in 1..Len(atoms[i].deps)} = CalleeIdentifiers(order[i])
            /\ \A j \in 1..Len(atoms[i].deps), k \in 1..Len(atoms[i].deps) :
                atoms[i].deps[j] = atoms[i].deps[k] => j = k

\* C10: a callee without a node of its own leaves no entry in the exported
\* deps list (one entry per callee that has a node, none besides), and the
\* export produces a record for every node without failing.
C10_DanglingCalleeSkipped ==
    /\ pc # "panicked"
    /\ (pc = "exported") =>
        /\ Len(atoms) = Cardinality(Nodes)
        /\ \A i \in 1..Len(atoms) :
            /\ Len(atoms[i].deps)
                = Cardinality(call_graph[order[i]].callees \cap Nodes)
            /\ \A j \in 1..Len(atoms[i].deps) :
                atoms[i].deps[j] \in CalleeIdentifiers(order[i])

\* C10 witness: a record exported for a node that has a callee without a node
C10_Witness ==
    /\ pc = "exported"
    /\ \E i \in 1..Len(atoms) :
        \E S \in call_graph[order[i]].callees : S \notin Nodes

(***************************************************************************)
(* symbol_to_path on its own: one call on a symbol and a display name.     *)
(***************************************************************************)

\* no run of build_call_graph is under way
GraphIdle ==
    /\ documents = <<>> /\ project_root = <<>> /\ files = <<>>
    /\ pc = "idle" /\ doc_idx = 0 /\ occ_pos = 0
    /\ function_symbols = {} /\ symbol_enclosure = <<>>
    /\ symbol_to_display_name = <<>> /\ call_graph = <<>>
    /\ current_symbol = "" /\ atoms = <<>> /\ order = <<>>

\* longest filler put in front of a descriptor
MaxPad == 130

\* a package or module name of n letters
Pad(n) == [i \in 1..n |-> "a"]

\* filler lengths: short ones, and the ones that bring the identifier to
\* the length limit and past it
PadLens == {0, 3} \cup ((MaxPad - 14)..MaxPad)

\* the scheme, manager, package and version of a rust-analyzer symbol
CargoPrefix == <<"r", "u", "s", "t", "-", "a", "n", "a", "l", "y", "z", "e", "r", " ", "c", "a", "r", "g", "o", " ", "p", " ", "0", ".", "1", ".", "0", " ">>

\* descriptors: a function, a method of a generic impl, a method of an impl
\* on a slice type, a method of an impl on a bare generic, a module with a
\* two-byte letter, and a local symbol
StemPool ==
    {<<"m", "/", "f", "o", "o", "(", ")", ".">>,
     <<"m", "/", "i", "m", "p", "l", "#", "[", "T", "]", "[", "U+0060", "M", "u", "l", "<", "A", ">", "U+0060", "]", "b", "a", "r", "(", ")", ".">>,
     <<"m", "/", "i", "m", "p", "l", "#", "[", "U+0060", "[", "T", "]", "U+0060", "]", "l", "e", "n", "(", ")", ".">>,
     <<"m", "/", "i", "m", "p", "l", "#", "[", "<", "T", ">", "]", "b", "a", "r", "(", ")", ".">>,
     <<"m", "/", "U+00E9", "/", "f", "o", "o", "(", ")", ".">>,
     <<"l", "o", "c", "a", "l", " ", "3">>}

\* the raw symbols handed to symbol_to_path
SymbolTexts ==
    {prefix \o Pad(n) \o stem :
        prefix \in {CargoPrefix, <<>>}, n \in PadLens, stem \in StemPool}

\* the display names handed to symbol_to_path; Unknown is the name of a
\* symbol that has none
NamePool ==
    {Foo, Bar, <<"l", "e", "n">>, <<"o", "o">>, <<"c", "a", "f", "U+00E9">>, Unknown}

StpInit ==
    /\ GraphIdle /\ FbmIdle /\ ExtIdle /\ CacheIdle
    /\ stp_symbol \in SymbolTexts
    /\ stp_display_name \in NamePool
    /\ stp_result = None

\* the call: Some(path), or Some(Panic) when the call panics
StpCall ==
    /\ pc = "idle"
    /\ stp_symbol # <<>>
    /\ stp_result = None
    /\ stp_result' = Some(symbol_to_path(stp_symbol, stp_display_name))
    /\ UNCHANGED <<graph_vars, stp_symbol, stp_display_name, fbm_vars, ext_vars,
                   cache_vars>>

StpNext == StpCall

StpSpec == StpInit /\ [][StpNext]_vars

\* symbol_to_path has returned or panicked
StpDone == stp_result # None

\* symbol_to_path has returned a path
StpReturned == StpDone /\ Unwrap(stp_result) # Panic

\* the path before the length limit is applied
StpUncut ==
    LET clean == CleanPath(StripVersion(StripCargoPrefix(stp_symbol)))
    IN  IF EndsWith(clean, stp_display_name) THEN clean
        ELSE clean \o <<"/">> \o stp_display_name

\* the part of a path after its last separator
LastSegment(p) ==
    LET seps == {i \in 1..Len(p) : p[i] = "/"}
        last == IF seps = {} THEN 0 ELSE CHOOSE i \in seps : \A j \in seps : j <= i
    IN  SubSeq(p, last + 1, Len(p))

\* C11: symbol_to_path never fails: whatever the raw symbol and the display
\* name, a call that is over has returned a path and has not panicked.
C11_NeverFails == StpDone => Unwrap(stp_result) # Panic

\* C12: the path symbol_to_path returns is never longer than 128 bytes
\* (and so never longer than 128 characters).
C12_AtMostMaxIdLen ==
    StpReturned =>
        /\ ByteLen(Unwrap(stp_result)) <= 128
        /\ Len(Unwrap(stp_result)) <= 128

\* a call returned for a path that was longer than the limit before the cut
C12_Witness == StpReturned /\ ByteLen(StpUncut) > 128

\* C13 as stated: the display name is the final segment of every identifier
\* symbol_to_path returns.
C13_NameIsFinalSegment ==
    StpReturned => LastSegment(Unwrap(stp_result)) = stp_display_name

\* C13 amended: an identifier that is not cut ends with the display name
\* (appended after a separator unless the cleaned path already ends with
\* it); an identifier that is cut is the first 128 bytes of that path.
C13_NameKeptUnlessCut ==
    StpReturned =>
        /\ ByteLen(StpUncut) <= 128 =>
              EndsWith(Unwrap(stp_result), stp_display_name)
        /\ ByteLen(StpUncut) > 128 =>
              /\ ByteLen(Unwrap(stp_result)) = 128
              /\ TakeChars(StpUncut, Len(Unwrap(stp_result))) = Unwrap(stp_result)

\* a call returned an identifier that was not cut and to which the display
\* name was appended
C13_Witness ==
    /\ StpReturned
    /\ ByteLen(StpUncut) <= 128
    /\ ~EndsWith(CleanPath(StripVersion(StripCargoPrefix(stp_symbol))), stp_display_name)
    /\ EndsWith(Unwrap(stp_result), <<"/">> \o stp_display_name)

\* C14: no identifier symbol_to_path returns holds two consecutive
\* separators.
C14_NoRepeatedSeparator ==
    StpReturned => ~Contains(Unwrap(stp_result), <<"/", "/">>)

(***************************************************************************)
(* verus_parser.rs: find_best_match                                        *)
(***************************************************************************)

\* FunctionSpan; lines are 1-based, end_line inclusive
FunctionSpan(name, start_line, end_line) ==
    [name |-> name, start_line |-> start_line, end_line |-> end_line]

\* const TOLERANCE
TOLERANCE == 15

\* |span.start_line - approx_line|
LineDiff(span, approx_line) ==
    IF span.start_line > approx_line THEN span.start_line - approx_line
    ELSE approx_line - span.start_line

\* a filter that keeps every span, whatever its name
MatchingAnyName(spans, name) == spans

\* spans.iter().filter(|s| s.name == name).collect()
Matching(spans, name) == SelectSeq(spans, LAMBDA s : s.name = name)

\* the first element of a non-empty list that satisfies ok
FirstWhere(list, ok(_)) ==
    list[CHOOSE i \in 1..Len(list) : ok(list[i]) /\ \A j \in 1..(i - 1) : ~ok(list[j])]

\* Iterator::min_by_key on the distance: the first of the nearest elements
MinByDiff(list, approx_line) ==
    FirstWhere(list, LAMBDA s :
        \A i \in 1..Len(list) : LineDiff(s, approx_line) <= LineDiff(list[i], approx_line))

find_best_match(spans, name, approx_line) ==
    LET matching == Matching(spans, name)
        IsExact(s) == s.start_line = approx_line
        IsNear(s) == LineDiff(s, approx_line) <= TOLERANCE
    IN  IF matching = <<>> THEN None
        ELSE IF Len(matching) = 1 THEN Some(matching[1])
        ELSE IF \E i \in 1..Len(matching) : IsExact(matching[i])
             THEN Some(FirstWhere(matching, IsExact))
        ELSE IF \E i \in 1..Len(matching) : IsNear(matching[i])
             THEN Some(FirstWhere(matching, IsNear))
        ELSE Some(MinByDiff(matching, approx_line))

\* longest list of spans handed to find_best_match
MaxSpans == 3

\* a name no span of the pool has
Baz == <<"b", "a", "z">>

\* start lines of the spans of the pool, and the lines requested: on a start
\* line, within the tolerance of one or of two of them, and out of it
SpanLines == {10, 20, 100}
RequestLines == {10, 15, 18, 60, 105}

SpanPool == {FunctionSpan(n, l, l + 10) : n \in {Foo, Bar}, l \in SpanLines}

FbmInit ==
    /\ GraphIdle /\ StpIdle /\ ExtIdle /\ CacheIdle
    /\ fbm_spans \in SeqsUpTo(SpanPool, MaxSpans)
    /\ fbm_name \in {Foo, Bar, Baz}
    /\ fbm_approx_line \in RequestLines
    /\ fbm_result = None

\* the call: Some(None) when no span is found, Some(Some(span)) otherwise
FbmCall ==
    /\ pc = "idle"
    /\ fbm_name # <<>>
    /\ fbm_result = None
    /\ fbm_result' = Some(find_best_match(fbm_spans, fbm_name, fbm_approx_line))
    /\ UNCHANGED <<graph_vars, stp_vars, fbm_spans, fbm_name, fbm_approx_line,
                   ext_vars, cache_vars>>

FbmNext == FbmCall

FbmSpec == FbmInit /\ [][FbmNext]_vars

\* find_best_match has returned
FbmDone == fbm_result # None

\* the spans of the list that have the requested name
Candidates == {fbm_spans[i] : i \in {j \in 1..Len(fbm_spans) : fbm_spans[j].name = fbm_name}}

\* C15: when no candidate starts on the requested line, the span returned is
\* a candidate nearest to the requested line: no other candidate is closer.
C15_NearestCandidate ==
    (/\ FbmDone
     /\ Candidates # {}
     /\ \A s \in Candidates : s.start_line # fbm_approx_line)
    => /\ Unwrap(fbm_result) # None
       /\ \A s \in Candidates :
            LineDiff(Unwrap(Unwrap(fbm_result)), fbm_approx_line)
                <= LineDiff(s, fbm_approx_line)

\* C16: a span that is returned is in the list and has the requested name,
\* and no span is returned exactly when the list holds none with that name.
C16_ExactName ==
    FbmDone =>
        /\ Unwrap(fbm_result) # None => Unwrap(Unwrap(fbm_result)) \in Candidates
        /\ Unwrap(fbm_result) = None <=> Candidates = {}

\* a call on a list that holds spans, none of them with the requested
\* name, returned no span
C16_Witness ==
    /\ FbmDone
    /\ fbm_spans # <<>>
    /\ Candidates = {}
    /\ Unwrap(fbm_result) = None

(***************************************************************************)
(* Pass 4 on one node: the body extracted for a definition on a given line *)
(* of a given file.                                                        *)
(***************************************************************************)

\* longest file, in lines
MaxFileLines == 4

\* the first line of a macro definition
MacroLine == <<"m", "a", "c", "r", "o", "_", "r", "u", "l", "e", "s", "!", " ", "m", " ", "{">>

\* the lines a file is made of: a declaration without a body, the three
\* lines of a function, a function on one line, and the first line of a macro
DeclLine == <<"f", "n", " ", "f", "o", "o", "(", ")", ";">>
LinePool ==
    {DeclLine,
     <<"f", "n", " ", "b", "a", "r", "(", ")", " ", "{">>,
     <<" ", " ", " ", " ", "b", "a", "z", "(", ")", ";">>,
     <<"}">>,
     <<"f", "n", " ", "o", "n", "e", "(", ")", " ", "{", " ", "1", " ", "}">>,
     MacroLine}

\* the file of the node
ExtPath == <<"/", "x", ".", "r", "s">>

\* the text of a file with the given lines, each ended by a newline
Contents(lines) == IF lines = <<>> THEN <<>> ELSE JoinLines(lines) \o <<"\n">>

\* the node pass 4 visits: defined on ext_start_line, its body still absent
ExtNode ==
    [file_path |-> ExtPath, range |-> <<ext_start_line, 3, 6>>, body |-> None]

ExtInit ==
    /\ GraphIdle /\ StpIdle /\ FbmIdle /\ CacheIdle
    /\ ext_lines \in SeqsUpTo(LinePool, MaxFileLines)
    /\ ext_start_line \in 0..MaxFileLines
    /\ ext_body = None

\* the visit of pass 4 to the node: Some(node.body) afterwards
ExtVisit ==
    /\ pc = "idle"
    /\ ext_body = None
    /\ ext_body' = Some(NodeBody([p \in {ExtPath} |-> Some(Contents(ext_lines))], ExtNode))
    /\ UNCHANGED <<graph_vars, stp_vars, fbm_vars, ext_lines, ext_start_line,
                   cache_vars>>

ExtNext == ExtVisit

ExtSpec == ExtInit /\ [][ExtNext]_vars

\* pass 4 has visited the node
ExtDone == ext_body # None

\* the node is defined on a line of the file that declares a callable
\* without braces
BraceLessDefinition ==
    /\ ext_start_line < Len(ext_lines)
    /\ ext_lines[ext_start_line + 1] = DeclLine

\* C17: for a node defined by a single-line callable without braces, the
\* body extracted is empty or that single line: the scan does not run on
\* into the lines that follow.
C17_BraceLessBounded ==
    (ExtDone /\ BraceLessDefinition) =>
        Unwrap(ext_body) \in {Some(<<>>), Some(DeclLine)}

(***************************************************************************)
(* Pass 4 within build_call_graph.                                         *)
(***************************************************************************)

\* the text of the file of node n: None when the file cannot be read
SourceOf(n) ==
    LET on_disk == TrimStartMatches(n.file_path, <<"f", "i", "l", "e", ":", "/", "/">>)
    IN  IF on_disk \in DOMAIN files THEN files[on_disk] ELSE None

\* body extraction fails for node n: its file cannot be read, or its start
\* line lies beyond the file
ExtractionFails(n) ==
    \/ SourceOf(n) = None
    \/ n.range[1] >= Len(Lines(Unwrap(SourceOf(n))))

\* C18: pass 4 always completes and build_call_graph returns; it keeps every
\* node with its symbol, name, paths, range, callers and callees; a node
\* whose extraction fails has no body, and every other node has the body
\* extracted from its own file, whatever happened to the other nodes.
C18_FailureIsolated ==
    [][pc = "pass4" =>
        /\ pc' = "built"
        /\ DOMAIN call_graph' = DOMAIN call_graph
        /\ \A k \in DOMAIN call_graph :
            LET before == call_graph[k]
                after == call_graph'[k]
            IN  /\ [after EXCEPT !.body = None] = [before EXCEPT !.body = None]
                /\ ExtractionFails(before) => after.body = None
                /\ ~ExtractionFails(before) =>
                      after.body = Some(ExtractBody(Lines(Unwrap(SourceOf(before))),
                                                    before.range[1]))]_vars

\* the graph returned holds a node whose extraction failed (its file is
\* missing, or it is defined beyond the end of its file) next to a node
\* with a body
C18_Witness ==
    /\ pc = "built"
    /\ \E k \in Nodes : ExtractionFails(call_graph[k]) /\ call_graph[k].body = None
    /\ \E k \in Nodes : call_graph[k].body # None

(***************************************************************************)
(* verus_parser.rs: FileSpanCache.                                         *)
(*                                                                         *)
(* The parser (verus_syn::parse_file and the visitor) is not modelled: a   *)
(* file on disk comes with the spans the parser finds in it, or with the   *)
(* fact that it does not parse.                                            *)
(***************************************************************************)

\* Result<T, String>
Ok(x) == <<"Ok", x>>
Err(e) == <<"Err", e>>
IsErr(res) == res[1] = "Err"

\* a file that parses, with the spans the parser finds in it
Parsable(text, spans) == [text |-> text, spans |-> Some(spans)]

\* a file that can be read and does not parse
Unparsable(text) == [text |-> text, spans |-> None]

\* fs::read_to_string on the files of the parser
ReadFile(fs, file_path) ==
    IF file_path \in DOMAIN fs THEN Ok(fs[file_path].text)
    ELSE Err("Failed to read file")

\* extract_function_spans_from_content, on the text of file_path
extract_function_spans_from_content(fs, file_path) ==
    IF IsSome(fs[file_path].spans) THEN Ok(Unwrap(fs[file_path].spans))
    ELSE Err("Failed to parse file")

extract_function_spans(fs, file_path) ==
    IF IsErr(ReadFile(fs, file_path)) THEN ReadFile(fs, file_path)
    ELSE extract_function_spans_from_content(fs, file_path)

\* usize::min
Min(a, b) == IF a < b THEN a ELSE b

extract_body_from_span(content, span) ==
    LET lines == Lines(content)
        start_idx == SaturatingSub(span.start_line, 1)
        end_idx == Min(span.end_line, Len(lines))
    IN  IF span.start_line = 0 \/ span.end_line = 0 THEN <<>>
        ELSE IF start_idx >= Len(lines) THEN <<>>
        ELSE JoinLines(SubSeq(lines, start_idx + 1, end_idx))

\* the file has to be parsed: it is not in the cache
MustParse(file_path) == file_path \notin DOMAIN cache

\* self.cache after get_spans(file_path)
CacheAfter(fs, file_path) ==
    IF MustParse(file_path) /\ ~IsErr(extract_function_spans(fs, file_path))
    THEN Insert(cache, file_path, extract_function_spans(fs, file_path)[2])
    ELSE cache

\* what get_spans(file_path) returns
SpansResult(fs, file_path) ==
    IF MustParse(file_path) /\ IsErr(extract_function_spans(fs, file_path))
    THEN extract_function_spans(fs, file_path)
    ELSE Ok(CacheAfter(fs, file_path)[file_path])

\* what get_function_body(file_path, function_name, approx_line) returns
BodyResult(fs, file_path, function_name, approx_line) ==
    LET spans == SpansResult(fs, file_path)
        found == find_best_match(spans[2], function_name, approx_line)
        content == ReadFile(fs, file_path)
    IN  IF IsErr(spans) THEN spans
        ELSE IF found = None THEN Ok(None)
        ELSE IF IsErr(content) THEN content
        ELSE Ok(Some(extract_body_from_span(content[2], Unwrap(found))))

\* most runs of the parser in one run of the program
MaxParses == 3

\* the paths requested
PathPool == {"a.rs", "b.rs", "c.rs"}

\* a source file of six lines with three functions, two of them named foo
SourceText == <<"f", "n", " ", "f", "o", "o", "(", ")", " ", "{", "\n", " ", " ", " ", " ", "b", "a", "r", "(", ")", ";", "\n", "}", "\n", "f", "n", " ", "b", "a", "r", "(", ")", " ", "{", "}", "\n", "f", "n", " ", "f", "o", "o", "(", ")", "\n", "{", " ", "}", "\n">>
SourceSpans == <<FunctionSpan(Foo, 1, 3), FunctionSpan(Bar, 4, 4), FunctionSpan(Foo, 5, 6)>>

\* what a path can be on disk: a file that parses, a file that does not,
\* or nothing
FileSystems ==
    UNION {[present -> {Parsable(SourceText, SourceSpans), Unparsable(SourceText)}] :
            present \in SUBSET PathPool}

CacheInit ==
    /\ GraphIdle /\ StpIdle /\ FbmIdle /\ ExtIdle
    /\ cache = EmptyMap
    /\ disk \in FileSystems
    /\ parses = <<>>
    /\ reply = [call |-> "new", file_path |-> "", result |-> Ok(None)]

\* the runs of the parser once get_spans(file_path) is over: the parser
\* runs when the file is not in the cache and can be read
ParsesAfter(file_path) ==
    IF MustParse(file_path) /\ ~IsErr(ReadFile(disk, file_path))
    THEN Append(parses, file_path)
    ELSE parses

GetSpans ==
    /\ pc = "idle"
    /\ reply # <<>>
    /\ Len(parses) < MaxParses
    /\ \E file_path \in PathPool :
        /\ parses' = ParsesAfter(file_path)
        /\ cache' = CacheAfter(disk, file_path)
        /\ reply' = [call |-> "get_spans", file_path |-> file_path,
                     result |-> SpansResult(disk, file_path)]
    /\ UNCHANGED <<graph_vars, stp_vars, fbm_vars, ext_vars, disk>>

GetFunctionBody ==
    /\ pc = "idle"
    /\ reply # <<>>
    /\ Len(parses) < MaxParses
    /\ \E file_path \in PathPool, function_name \in {Foo, Baz}, approx_line \in {1, 5} :
        /\ parses' = ParsesAfter(file_path)
        /\ cache' = CacheAfter(disk, file_path)
        /\ reply' = [call |-> "get_function_body", file_path |-> file_path,
                     result |-> BodyResult(disk, file_path, function_name, approx_line)]
    /\ UNCHANGED <<graph_vars, stp_vars, fbm_vars, ext_vars, disk>>

CacheNext == GetSpans \/ GetFunctionBody

CacheSpec == CacheInit /\ [][CacheNext]_vars

\* file_path cannot be read or does not parse
ParseFails(file_path) ==
    file_path \notin DOMAIN disk \/ disk[file_path].spans = None

\* C19: get_function_body on a file that cannot be read or parsed returns
\* "no match" (Ok(None)), not an error.
C19_NoMatchOnParseFailure ==
    (reply # <<>> /\ reply.call = "get_function_body" /\ ParseFails(reply.file_path))
        => reply.result = Ok(None)

\* C20: whatever the calls of get_spans and get_function_body, no file path
\* is parsed more than once.
C20_ParsedAtMostOnce ==
    \A i, j \in 1..Len(parses) : parses[i] = parses[j] => i = j

(***************************************************************************)
(* Order and frame of the passes of build_call_graph.                      *)
(***************************************************************************)

\* the nodes of the graph build_call_graph returns
FinalNodes == {S \in SymbolPool : Callable(S) /\ Defined(S)}

\* pass 2 is over
Seeded == pc \in {"pass3", "walk", "pass4", "built", "exported", "panicked"}

\* C21: no edge is recorded while nodes are still being seeded, and from
\* the start of edge resolution on the node set is the final node set.
C21_SeedingBeforeEdges ==
    /\ ~Seeded => \A k \in Nodes :
                    call_graph[k].callers = {} /\ call_graph[k].callees = {}
    /\ Seeded => Nodes = FinalNodes

\* edge resolution is under way, an edge is recorded, and the graph holds a
\* node seeded from the last document
C21_Witness ==
    /\ pc \in {"pass3", "walk"}
    /\ \E k \in Nodes : call_graph[k].callees # {}
    /\ \E k \in Nodes :
        call_graph[k].relative_path = rel_path_str(documents[Len(documents)])

\* S is listed in some document's symbols
Listed(S) ==
    \E d \in DocIds : \E i \in 1..Len(documents[d].symbols) :
        documents[d].symbols[i].symbol = S

\* C22: a kind is callable exactly when it is Method (6), Function (17),
\* Constructor (26) or Macro (80); the symbols classified callable are the
\* ones listed with such a kind, and only they have a node or stand in a
\* callers or callees set.
C22_CallableKinds ==
    /\ \A kind \in (-1)..100 : is_function_like(kind) <=> kind \in {6, 17, 26, 80}
    /\ pc # "pass1" => function_symbols = {S \in SymbolPool : Callable(S)}
    /\ \A k \in Nodes :
        /\ Callable(k)
        /\ \A S \in call_graph[k].callers \cup call_graph[k].callees : Callable(S)

\* the graph returned has nodes, and none for a symbol that is listed with
\* a kind that is not callable, although it is defined and referenced
C22_Witness ==
    /\ Returned
    /\ Nodes # {}
    /\ \E S \in SymbolPool :
        Listed(S) /\ ~Callable(S) /\ Defined(S) /\ Referenced(S) /\ S \notin Nodes

(***************************************************************************)
(* write_call_graph_as_atoms_json on the graph of one definition, for      *)
(* several project roots and document paths.                               *)
(***************************************************************************)

\* Metadata.project_root: URIs of two machines, a plain path, nothing
AtomRoots ==
    {<<"f", "i", "l", "e", ":", "/", "/", "/", "r">>,
     <<"f", "i", "l", "e", ":", "/", "/", "/", "h", "o", "m", "e", "/", "u", "/", "p">>,
     <<"/", "s", "r", "v", "/", "p">>,
     <<>>}

\* Document.relative_path: canonical paths of depth 1 to 3, two of them
\* with a leading separator
AtomPaths ==
    {<<"x", ".", "r", "s">>,
     <<"a", "/", "x", ".", "r", "s">>,
     <<"a", "/", "b", "/", "x", ".", "r", "s">>,
     <<"/", "y", ".", "r", "s">>,
     <<"s", "r", "c", "/", "l", "i", "b", ".", "r", "s">>,
     <<"/", "a", "/", "y", ".", "r", "s">>}

\* the graph build_call_graph returns for an index of one document that
\* holds one definition
OneNodeGraph(root, relative_path, symbol) ==
    SeedNodes(root, Doc(relative_path, <<Occ(symbol, Some(1))>>, <<>>), 1,
              {symbol}, EmptyMap, EmptyMap)

AtomInit ==
    /\ StpIdle /\ FbmIdle /\ ExtIdle /\ CacheIdle
    /\ documents = <<>> /\ files = <<>>
    /\ project_root \in AtomRoots
    /\ \E relative_path \in AtomPaths, symbol \in SymbolPool :
        call_graph = OneNodeGraph(project_root, relative_path, symbol)
    /\ pc = "built"
    /\ doc_idx = 0 /\ occ_pos = 0
    /\ function_symbols = {} /\ symbol_enclosure = <<>>
    /\ symbol_to_display_name = <<>>
    /\ current_symbol = "" /\ atoms = <<>> /\ order = <<>>

AtomNext == Export

AtomSpec == AtomInit /\ [][AtomNext]_vars

\* the segments of a path between separators, empty ones left out
Segments(p) == SelectSeq(SplitSlash(p), LAMBDA seg : seg # <<>>)

\* the last component of a relative path
LastComponent(p) ==
    IF Segments(p) = <<>> THEN <<>> ELSE Segments(p)[Len(Segments(p))]

\* the name of the immediate parent directory, "root" for a top-level file
ParentName(p) ==
    IF Len(Segments(p)) < 2 THEN <<"r", "o", "o", "t">>
    ELSE Segments(p)[Len(Segments(p)) - 1]

\* C23: in every record written, file name and parent folder are determined
\* by the relative path alone: the last component, and the name of the
\* immediate parent directory ("root" for a top-level file), whatever the
\* project root.
C23_NamesFromRelativePath ==
    pc = "exported" =>
        \A i \in 1..Len(atoms) :
            /\ atoms[i].relative_path = call_graph[order[i]].relative_path
            /\ atoms[i].file_name = LastComponent(atoms[i].relative_path)
            /\ atoms[i].parent_folder = ParentName(atoms[i].relative_path)

\* a record is written for a top-level file of a project whose root is not
\* empty
C23_Witness ==
    /\ pc = "exported"
    /\ project_root # <<>>
    /\ \E i \in 1..Len(atoms) :
        /\ Len(Segments(atoms[i].relative_path)) = 1
        /\ atoms[i].full_path # atoms[i].relative_path

(***************************************************************************)
(* The enclosure chain of a symbol, read from the index.                   *)
(***************************************************************************)

\* the entries of all documents' symbols, in document order
RECURSIVE AllSymbols(_)
AllSymbols(d) ==
    IF d > Len(documents) THEN <<>>
    ELSE documents[d].symbols \o AllSymbols(d + 1)

\* the enclosing symbol recorded for S: that of the last entry that lists S
\* with one
EnclosingOf(S) ==
    LET entries == SelectSeq(AllSymbols(1),
                             LAMBDA e : e.symbol = S /\ IsSome(e.enclosing_symbol))
    IN  IF entries = <<>> THEN None ELSE entries[Len(entries)].enclosing_symbol

\* the first callable symbol met from S upwards, S itself not considered;
\* None when the chain ends, or turns in a circle, before one is met
RECURSIVE NearestCallable(_, _)
NearestCallable(S, fuel) ==
    IF EnclosingOf(S) = None \/ fuel = 0 THEN None
    ELSE IF Callable(Unwrap(EnclosingOf(S))) THEN EnclosingOf(S)
    ELSE NearestCallable(Unwrap(EnclosingOf(S)), fuel - 1)

CallerOf(S) == NearestCallable(S, Cardinality(SymbolPool))

\* the same as a set: empty, or the one caller
Callers(S) == IF CallerOf(S) = None THEN {} ELSE {Unwrap(CallerOf(S))}

\* the pairs <<caller, callee>> recorded on either side in a graph
EdgesOf(graph) ==
    {e \in SymbolPool \X SymbolPool :
        \/ e[1] \in DOMAIN graph /\ e[2] \in graph[e[1]].callees
        \/ e[2] \in DOMAIN graph /\ e[1] \in graph[e[2]].callers}

\* what a step of pass 3 may add to the edges, and what the step that ends
\* a walk must have added
EdgeStep ==
    pc \in {"pass3", "walk"} =>
        LET callee == CurrentOccurrence.symbol
            added == EdgesOf(call_graph') \ EdgesOf(call_graph)
            ends == pc = "walk" /\ occ_pos' # occ_pos
        IN  /\ added # {} => /\ ends
                             /\ ~HasDefinitionRole(CurrentOccurrence)
                             /\ Callable(callee)
                             /\ CallerOf(callee) # None
            /\ added \subseteq {<<caller, callee>> : caller \in Callers(callee)}
            /\ ends => \A caller \in Callers(callee) \ {callee} :
                    /\ callee \in Nodes => caller \in call_graph'[callee].callers
                    /\ caller \in Nodes => callee \in call_graph'[caller].callees

\* C24: for a non-definition occurrence of a callable symbol, edge
\* resolution records at most one edge, and its caller is the nearest
\* callable symbol above the callee on the enclosure chain, every symbol
\* passed over before it being non-callable; a walk whose chain ends without
\* meeting a callable records no edge; no other step of pass 3 records one.
C24_NearestCallableAncestor == [][EdgeStep]_vars

\* a walk has recorded an edge whose caller is not the symbol directly
\* above the callee: a non-callable symbol was passed over; and another walk
\* has ended without an edge
C24_Witness ==
    /\ pc = "pass4"
    /\ \E callee \in Nodes : \E caller \in Callers(callee) \cap Nodes :
        /\ EnclosingOf(callee) # Some(caller)
        /\ call_graph[callee].callers = {caller}
        /\ call_graph[caller].callees = {callee}
    /\ \E S \in SymbolPool :
        Callable(S) /\ Referenced(S) /\ CallerOf(S) = None

(***************************************************************************)
(* Termination of build_call_graph: the loops over documents, symbols and  *)
(* occurrences are bounded by the index; the run is one thread that takes  *)
(* its next step as long as there is one.                                  *)
(***************************************************************************)

\* indexes over the fixed occurrences, where F is a function referenced in
\* document B and G and H are modules; each is enclosed by another symbol or
\* by none
WalkIndexes ==
    {<<Doc(PathA, FixedOccsA, <<Sym("F", 17, Some(Foo), f)>>),
       Doc(PathB, FixedOccsB, <<Sym("G", 29, Some(Bar), g), Sym("H", 29, Some(Bar), h)>>)>> :
        f \in {None, Some("G"), Some("H")},
        g \in {None, Some("F"), Some("H")},
        h \in {None, Some("F"), Some("G")}}

WalkInit ==
    /\ documents \in WalkIndexes
    /\ files = FileSystem
    /\ project_root \in RootPool
    /\ pc = "pass1"
    /\ doc_idx = 1
    /\ occ_pos = 1
    /\ function_symbols = {}
    /\ symbol_enclosure = EmptyMap
    /\ symbol_to_display_name = EmptyMap
    /\ call_graph = EmptyMap
    /\ current_symbol = ""
    /\ atoms = <<>>
    /\ order = <<>>
    /\ StpIdle /\ FbmIdle /\ ExtIdle /\ CacheIdle

\* every loop of build_call_graph takes its next step as long as it has one;
\* for pass 4, which has a step exactly when pc = "pass4", this is stated
\* without ENABLED
WalkSpec ==
    /\ WalkInit /\ [][Next]_vars
    /\ WF_vars(Pass1Doc) /\ WF_vars(Pass2Doc)
    /\ WF_vars(Pass3Occurrence) /\ WF_vars(WalkStep)
    /\ ([]<>(pc # "pass4") \/ []<><<Pass4>>_vars)

\* C25: build_call_graph terminates on every loaded index: every enclosure
\* walk of pass 3 ends, and the graph is returned.
C25_Terminates == <>Returned

(***************************************************************************)
(* Node seeding as a function of the sequence of documents.                *)
(***************************************************************************)

\* pass 2 over the documents docs[d..], from graph
RECURSIVE SeedDocuments(_, _, _, _, _, _)
SeedDocuments(root, docs, d, fsyms, names, graph) ==
    IF d > Len(docs) THEN graph
    ELSE SeedDocuments(root, docs, d + 1, fsyms, names,
                       SeedNodes(root, docs[d], 1, fsyms, names, graph))

Reverse(seq) == [i \in 1..Len(seq) |-> seq[Len(seq) + 1 - i]]

\* what seeding gives every node: paths, display name and range
NodeData(graph) ==
    [k \in DOMAIN graph |->
        [file_path |-> graph[k].file_path,
         relative_path |-> graph[k].relative_path,
         display_name |-> graph[k].display_name,
         range |-> graph[k].range]]

\* the nodes seeded from the documents taken in the opposite order, over the
\* same lookup maps
SeededBackwards ==
    SeedDocuments(project_root, Reverse(documents), 1,
                  function_symbols, symbol_to_display_name, EmptyMap)

\* C26: node seeding is independent across documents: taking the documents
\* of the index in another order yields the same node set, with the same
\* path, display name and range for every node.
C26_OrderIndependent ==
    Seeded => NodeData(call_graph) = NodeData(SeededBackwards)

(***************************************************************************)
(* The definition a node is made from.                                     *)
(***************************************************************************)

\* the places <<document, occurrence>> of the Definition occurrences of S
DefinitionsOf(S) ==
    {p \in UNION {{<<d, i>> : i \in Places(d)} : d \in DocIds} :
        /\ documents[p[1]].occurrences[p[2]].symbol = S
        /\ HasDefinitionRole(documents[p[1]].occurrences[p[2]])}

\* p comes before q in document order, then occurrence order
Before(p, q) == p[1] < q[1] \/ (p[1] = q[1] /\ p[2] < q[2])

FirstDefinition(S) ==
    CHOOSE p \in DefinitionsOf(S) : \A q \in DefinitionsOf(S) \ {p} : Before(p, q)

\* the display name pass 1 keeps for S: that of the last callable entry
NameGiven(S) ==
    LET entries == SelectSeq(AllSymbols(1),
                             LAMBDA e : e.symbol = S /\ e.kind \in {6, 17, 26, 80})
        last == entries[Len(entries)]
    IN  IF entries = <<>> \/ last.display_name = None THEN Unknown
        ELSE Unwrap(last.display_name)

Span(first, last) == JoinLines(SubSeq(ext_lines, first + 1, last + 1))

\* C29: whenever pass 4 sets the body of a node, the text extracted includes
\* the source line at the reported definition line, range[0]: it is a run of
\* lines of the file that starts at or before that line and ends at or after
\* it.
C29_BodyCoversDefinitionLine ==
    (ExtDone /\ Unwrap(ext_body) # None) =>
        \E first \in 0..ext_start_line :
            \E last \in ext_start_line..(Len(ext_lines) - 1) :
                Unwrap(Unwrap(ext_body)) = Span(first, last)

(***************************************************************************)
(* What the passes after seeding may write.                                *)
(***************************************************************************)

\* a step taken once the nodes are seeded keeps the set of nodes and, of
\* every node, symbol, display name, paths and range; a step of pass 3 keeps
\* the bodies as well, the step of pass 4 the callers and callees
FrameStep ==
    Seeded =>
        /\ DOMAIN call_graph' = DOMAIN call_graph
        /\ NodeData(call_graph') = NodeData(call_graph)
        /\ \A k \in Nodes :
            /\ call_graph'[k].symbol = call_graph[k].symbol
            /\ pc \in {"pass3", "walk"} => call_graph'[k].body = call_graph[k].body
            /\ pc # "pass3" /\ pc # "walk" =>
                /\ call_graph'[k].callers = call_graph[k].callers
                /\ call_graph'[k].callees = call_graph[k].callees

\* C30: after node seeding, the later passes never add or remove a node nor
\* change a node's symbol, display name, file path, relative path or range:
\* edge resolution changes only callers and callees sets, body extraction
\* only the body field.
C30_LaterPassesFrame == [][FrameStep]_vars

\* edge resolution has written callers and callees, and body extraction a
\* body
C30_Witness ==
    /\ Returned
    /\ \E k \in Nodes : call_graph[k].callers # {}
    /\ \E k \in Nodes : call_graph[k].callees # {}
    /\ \E k \in Nodes : call_graph[k].body # None

====
